---- MODULE Spec2Model ----
(***************************************************************************)
(* The spaced-repetition scheduler of services/spacedRepetitionService.ts: *)
(* review policy, settings manager, progress tracker, queue builder and    *)
(* the localStorage migration, over a store holding one user's settings    *)
(* and progress rows and the problem catalog.                              *)
(*                                                                         *)
(* Time is counted in ticks; TicksPerDay ticks make one calendar day and   *)
(* local midnight of day d is the tick d * TicksPerDay.  Strings that the  *)
(* code inspects character by character (topic filters, problem groups)    *)
(* are sequences of one-character strings.                                 *)
(***************************************************************************)
EXTENDS Integers, Sequences, FiniteSets, TLC

VARIABLES
    catalog,     \* rows of the problem table, in the order fetchAllBlindProblems returns them
    settings,    \* the user's stored study settings, or NoSettings
    progress,    \* the user's stored progress rows: a function from the titles that have a row
    now,         \* the current time, in ticks
    loadedAt,    \* the time the module was loaded (DEFAULT_SETTINGS.startDate)
    calls,       \* number of calls made so far that write to the store
    maxSeen,     \* history: per title whose row only attempts have written, the highest score of those attempts
    last,        \* the operation that has just run: its name, its arguments and what it returned
    session      \* the study plan the user follows: the problems of today's queue still to attempt

vars == <<catalog, settings, progress, now, loadedAt, calls, maxSeen, last, session>>

-----------------------------------------------------------------------------
(* Bounds of the model *)

MaxNow == 3
MaxCalls == 3

TicksPerDay == 2

-----------------------------------------------------------------------------
(* Strings as sequences of characters *)

UpperChars == <<"A","B","C","D","E","F","G","H","I","J","K","L","M",
                "N","O","P","Q","R","S","T","U","V","W","X","Y","Z">>
LowerChars == <<"a","b","c","d","e","f","g","h","i","j","k","l","m",
                "n","o","p","q","r","s","t","u","v","w","x","y","z">>

\* String.prototype.toLowerCase, one character
LowerChar(c) ==
    IF \E i \in 1..Len(UpperChars) : UpperChars[i] = c
    THEN LowerChars[CHOOSE i \in 1..Len(UpperChars) : UpperChars[i] = c]
    ELSE c

\* String.prototype.toUpperCase, one character
UpperChar(c) ==
    IF \E i \in 1..Len(LowerChars) : LowerChars[i] = c
    THEN UpperChars[CHOOSE i \in 1..Len(LowerChars) : LowerChars[i] = c]
    ELSE c

toLowerCase(s) == [i \in 1..Len(s) |-> LowerChar(s[i])]

\* the class \s of the regular expression, over the characters in use
IsSpace(c) == c = " "

\* s.replace(/\s+/g, '_'): every maximal run of whitespace becomes one underscore
RECURSIVE replaceSpaces(_)
replaceSpaces(s) ==
    IF s = <<>> THEN <<>>
    ELSE IF IsSpace(Head(s))
         THEN IF Len(s) > 1 /\ IsSpace(s[2])
              THEN replaceSpaces(Tail(s))
              ELSE <<"_">> \o replaceSpaces(Tail(s))
         ELSE <<Head(s)>> \o replaceSpaces(Tail(s))

\* String.prototype.includes
includes(s, t) ==
    \E i \in 0..(Len(s) - Len(t)) : SubSeq(s, i + 1, i + Len(t)) = t

\* s.split('_'): the words between the underscores (one more word than underscores)
RECURSIVE split(_)
split(s) ==
    IF \A i \in 1..Len(s) : s[i] # "_" THEN <<s>>
    ELSE LET k == CHOOSE i \in 1..Len(s) : s[i] = "_" /\ \A j \in 1..(i - 1) : s[j] # "_"
         IN  <<SubSeq(s, 1, k - 1)>> \o split(SubSeq(s, k + 1, Len(s)))

\* word.charAt(0).toUpperCase() + word.slice(1)
capitalize(word) ==
    IF word = <<>> THEN <<>> ELSE <<UpperChar(Head(word))>> \o Tail(word)

\* words.join(' ')
RECURSIVE join(_)
join(words) ==
    IF words = <<>> THEN <<>>
    ELSE IF Len(words) = 1 THEN Head(words)
         ELSE Head(words) \o <<" ">> \o join(Tail(words))

formatGroupName(name) ==
    join([i \in 1..Len(split(name)) |-> capitalize(split(name)[i])])

\* the characters of the strings in use
Chars(s) ==
    CASE s = "" -> <<>>
      [] s = "arrays_hashing" -> <<"a","r","r","a","y","s","_","h","a","s","h","i","n","g">>
      [] s = "two_pointers" -> <<"t","w","o","_","p","o","i","n","t","e","r","s">>
      [] s = "Arrays & Hashing" -> <<"A","r","r","a","y","s"," ","&"," ","H","a","s","h","i","n","g">>
      [] s = "Arrays Hashing" -> <<"A","r","r","a","y","s"," ","H","a","s","h","i","n","g">>
      [] s = "Two Pointers" -> <<"T","w","o"," ","P","o","i","n","t","e","r","s">>
      [] s = "all_mastered" -> <<"a","l","l","_","m","a","s","t","e","r","e","d">>

\* the problem groups and the topicFilter arguments in use
Groups == {"", "arrays_hashing", "two_pointers"}
TopicFilters == {"", "all_mastered", "Arrays & Hashing", "Two Pointers"}

-----------------------------------------------------------------------------
(* Constants of the service *)

TOTAL_BLIND_75 == 75

Null == -1

SCORE_EXCEPTIONAL == 85
SCORE_MASTERED == 75
SCORE_PARTIAL == 50

ADJUST_MEDIUM == 0
ADJUST_HARD == -5

DEFAULT_TARGET_DAYS == 10
DEFAULT_DAILY_CAP == 15
DEFAULT_EASY_BONUS == 10

\* startDate: new Date() is evaluated once, when the module is loaded
DEFAULT_SETTINGS ==
    [targetDays |-> DEFAULT_TARGET_DAYS, dailyCap |-> DEFAULT_DAILY_CAP,
     easyBonus |-> DEFAULT_EASY_BONUS, startDate |-> loadedAt]

NoSettings == [absent |-> TRUE]
NoProgress == [absent |-> TRUE]

SettingsFields == {"targetDays", "dailyCap", "easyBonus", "startDate"}

Max(a, b) == IF a >= b THEN a ELSE b
Min(a, b) == IF a <= b THEN a ELSE b

-----------------------------------------------------------------------------
(* Review policy *)

\* faulty variant: the weakest scores need a fourth review
calculateReviewsNeeded_FourReviews(score, difficulty, easyBonus) ==
    LET adjustment == IF difficulty = "easy" THEN easyBonus
                      ELSE IF difficulty = "medium" THEN ADJUST_MEDIUM ELSE ADJUST_HARD
        adjustedScore == score + adjustment
    IN  IF adjustedScore >= SCORE_EXCEPTIONAL THEN 0
        ELSE IF adjustedScore >= SCORE_MASTERED THEN 1
        ELSE IF adjustedScore >= SCORE_PARTIAL THEN 2
        ELSE 3 + 1

\* faulty variant: easy problems always get the default bonus of 10
calculateReviewsNeeded_FixedEasy(score, difficulty, easyBonus) ==
    LET adjustment == IF difficulty = "easy" THEN DEFAULT_EASY_BONUS
                      ELSE IF difficulty = "medium" THEN ADJUST_MEDIUM ELSE ADJUST_HARD
        adjustedScore == score + adjustment
    IN  IF adjustedScore >= SCORE_EXCEPTIONAL THEN 0
        ELSE IF adjustedScore >= SCORE_MASTERED THEN 1
        ELSE IF adjustedScore >= SCORE_PARTIAL THEN 2
        ELSE 3

\* faulty variant: the results of the two middle bands are exchanged
calculateReviewsNeeded_SwappedBands(score, difficulty, easyBonus) ==
    LET adjustment == IF difficulty = "easy" THEN easyBonus
                      ELSE IF difficulty = "medium" THEN ADJUST_MEDIUM ELSE ADJUST_HARD
        adjustedScore == score + adjustment
    IN  IF adjustedScore >= SCORE_EXCEPTIONAL THEN 0
        ELSE IF adjustedScore >= SCORE_MASTERED THEN 2
        ELSE IF adjustedScore >= SCORE_PARTIAL THEN 1
        ELSE 3

calculateReviewsNeeded(score, difficulty, easyBonus) ==
    LET adjustment == IF difficulty = "easy" THEN easyBonus
                      ELSE IF difficulty = "medium" THEN ADJUST_MEDIUM ELSE ADJUST_HARD
        adjustedScore == score + adjustment
    IN  IF adjustedScore >= SCORE_EXCEPTIONAL THEN 0
        ELSE IF adjustedScore >= SCORE_MASTERED THEN 1
        ELSE IF adjustedScore >= SCORE_PARTIAL THEN 2
        ELSE 3

\* faulty variant: mastery only once the reviews exceed the requirement
determineStatus_Strict(reviewsCompleted, reviewsNeeded) ==
    IF reviewsNeeded = 0 \/ reviewsCompleted > reviewsNeeded
    THEN "mastered" ELSE "learning"

\* faulty variant: mastery one review early
determineStatus_OffByOne(reviewsCompleted, reviewsNeeded) ==
    IF reviewsNeeded = 0 \/ reviewsCompleted >= reviewsNeeded - 1
    THEN "mastered" ELSE "learning"

determineStatus(reviewsCompleted, reviewsNeeded) ==
    IF reviewsNeeded = 0 \/ reviewsCompleted >= reviewsNeeded
    THEN "mastered" ELSE "learning"

-----------------------------------------------------------------------------
(* The store (databaseService), as the service uses it *)

\* the value a settings column takes when a row is created without it
ColumnDefault(f) ==
    CASE f = "targetDays" -> DEFAULT_TARGET_DAYS
      [] f = "dailyCap" -> DEFAULT_DAILY_CAP
      [] f = "easyBonus" -> DEFAULT_EASY_BONUS
      [] f = "startDate" -> now

\* upsertUserStudySettings: the given fields replace the stored ones, the others stay
upsertUserStudySettings(stored, updates) ==
    [f \in SettingsFields |->
        IF f \in DOMAIN updates THEN updates[f]
        ELSE IF stored = NoSettings THEN ColumnDefault(f) ELSE stored[f]]

fetchUserStudySettings == settings

\* upsertUserProblemProgress / one item of batchUpsertUserProgress:
\* the given columns replace the stored ones, the others stay (null in a new row)
upsertRow(rows, title, fields) ==
    LET old == IF title \in DOMAIN rows THEN rows[title]
               ELSE [problemTitle |-> title, status |-> "new", bestScore |-> Null,
                     reviewsNeeded |-> 0, reviewsCompleted |-> 0, nextReviewAt |-> Null]
        new == [f \in DOMAIN old |-> IF f \in DOMAIN fields THEN fields[f] ELSE old[f]]
    IN  [t \in DOMAIN rows \cup {title} |-> IF t = title THEN new ELSE rows[t]]

RECURSIVE batchUpsertUserProgress(_, _)
batchUpsertUserProgress(rows, items) ==
    IF items = <<>> THEN rows
    ELSE batchUpsertUserProgress(
            upsertRow(rows, Head(items).problemTitle, Head(items)), Tail(items))

\* the rows of a set of titles as a list, ordered by next review time, then by title
RECURSIVE RowsInOrder(_, _)
RowsInOrder(rows, titles) ==
    IF titles = {} THEN <<>>
    ELSE LET first == CHOOSE t \in titles : \A u \in titles :
                         \/ rows[t].nextReviewAt < rows[u].nextReviewAt
                         \/ rows[t].nextReviewAt = rows[u].nextReviewAt /\ t <= u
         IN  <<rows[first]>> \o RowsInOrder(rows, titles \ {first})

\* the rows of a set of titles as a list, ordered by title
RECURSIVE RowsByTitle(_, _)
RowsByTitle(rows, titles) ==
    IF titles = {} THEN <<>>
    ELSE LET first == CHOOSE t \in titles : \A u \in titles : t <= u
         IN  <<rows[first]>> \o RowsByTitle(rows, titles \ {first})

fetchAllUserProgress(rows) == RowsByTitle(rows, DOMAIN rows)

Midnight(day) == day * TicksPerDay
DayOf(t) == t \div TicksPerDay

\* fetchDueReviews: next review time reached, not mastered
fetchDueReviews(rows, t) ==
    RowsInOrder(rows, {x \in DOMAIN rows :
        /\ rows[x].nextReviewAt # Null
        /\ rows[x].nextReviewAt <= t
        /\ rows[x].status # "mastered"})

\* fetchDueTomorrow: next review time within the following calendar day
fetchDueTomorrow(rows, t) ==
    RowsInOrder(rows, {x \in DOMAIN rows :
        /\ rows[x].nextReviewAt # Null
        /\ rows[x].nextReviewAt >= Midnight(DayOf(t) + 1)
        /\ rows[x].nextReviewAt < Midnight(DayOf(t) + 2)})

fetchAllBlindProblems == catalog

-----------------------------------------------------------------------------
(* Settings manager *)

\* faulty variant: the default settings are returned without being written
SettingsAfterGet_NoWrite(stored) == stored

\* what getSettingsWithDefaults leaves in the store
SettingsAfterGet(stored) ==
    IF stored # NoSettings THEN stored
    ELSE upsertUserStudySettings(stored, DEFAULT_SETTINGS)

\* what getSettingsWithDefaults returns
getSettingsWithDefaults(stored) ==
    IF stored # NoSettings THEN stored ELSE DEFAULT_SETTINGS

\* faulty variant: the start date of the defaults is not replaced by the time of the call
resetStudyPlan_StaleDate(stored) ==
    upsertUserStudySettings(stored, DEFAULT_SETTINGS)

resetStudyPlan(stored) ==
    upsertUserStudySettings(stored, [DEFAULT_SETTINGS EXCEPT !.startDate = now])

-----------------------------------------------------------------------------
(* Progress tracker *)

\* faulty variant: one day later, at the same time of day
NextMidnight_SameTime(t) == t + TicksPerDay

\* new Date(); setDate(getDate() + 1); setHours(0, 0, 0, 0)
NextMidnight(t) == Midnight(DayOf(t) + 1)

\* faulty variant: the best score is overwritten by the latest score
BestScoreOf_Latest(existingProgress, score) == score

BestScoreOf(existingProgress, score) ==
    IF existingProgress # NoProgress /\ existingProgress.bestScore # Null
       /\ existingProgress.bestScore # 0
    THEN Max(existingProgress.bestScore, score)
    ELSE score

\* faulty variant: a learning row is due again at once
NextReviewOf_AtOnce(newStatus, t) ==
    IF newStatus = "learning" THEN t ELSE Null

NextReviewOf(newStatus, t) ==
    IF newStatus = "learning" THEN NextMidnight(t) ELSE Null

\* faulty variant: the reviews are counted from the stored row, not from the row given
AttemptFields_CountStored(score, difficulty, existingProgress, easyBonus, t) ==
    LET reviewsNeeded == calculateReviewsNeeded(score, difficulty, easyBonus)
        previousReviews == IF existingProgress # NoProgress
                           THEN progress[existingProgress.problemTitle].reviewsCompleted ELSE 0
        newReviewsCompleted == previousReviews + 1
        newStatus == determineStatus(newReviewsCompleted, reviewsNeeded)
    IN  [status |-> newStatus,
         bestScore |-> BestScoreOf(existingProgress, score),
         reviewsNeeded |-> reviewsNeeded,
         reviewsCompleted |-> newReviewsCompleted,
         nextReviewAt |-> NextReviewOf(newStatus, t)]

\* faulty variant: the requirement of an earlier attempt is kept when it is higher
AttemptFields_Sticky(score, difficulty, existingProgress, easyBonus, t) ==
    LET computed == calculateReviewsNeeded(score, difficulty, easyBonus)
        reviewsNeeded == IF existingProgress # NoProgress
                         THEN Max(existingProgress.reviewsNeeded, computed) ELSE computed
        previousReviews == IF existingProgress # NoProgress
                           THEN existingProgress.reviewsCompleted ELSE 0
        newReviewsCompleted == previousReviews + 1
        newStatus == determineStatus(newReviewsCompleted, reviewsNeeded)
    IN  [status |-> newStatus,
         bestScore |-> BestScoreOf(existingProgress, score),
         reviewsNeeded |-> reviewsNeeded,
         reviewsCompleted |-> newReviewsCompleted,
         nextReviewAt |-> NextReviewOf(newStatus, t)]

\* the columns updateProgressAfterAttempt upserts (without lastReviewedAt, which the
\* service writes and never reads)
AttemptFields(score, difficulty, existingProgress, easyBonus, t) ==
    LET reviewsNeeded == calculateReviewsNeeded(score, difficulty, easyBonus)
        previousReviews == IF existingProgress # NoProgress
                           THEN existingProgress.reviewsCompleted ELSE 0
        newReviewsCompleted == previousReviews + 1
        newStatus == determineStatus(newReviewsCompleted, reviewsNeeded)
    IN  [status |-> newStatus,
         bestScore |-> BestScoreOf(existingProgress, score),
         reviewsNeeded |-> reviewsNeeded,
         reviewsCompleted |-> newReviewsCompleted,
         nextReviewAt |-> NextReviewOf(newStatus, t)]

-----------------------------------------------------------------------------
(* Migration from localStorage *)

MigratedItem(title) ==
    [problemTitle |-> title, status |-> "mastered", bestScore |-> 85,
     reviewsNeeded |-> 1, reviewsCompleted |-> 1, nextReviewAt |-> now]

migrateFromLocalStorage(rows, masteredIds) ==
    IF Len(masteredIds) = 0 THEN rows
    ELSE batchUpsertUserProgress(rows,
            [i \in 1..Len(masteredIds) |-> MigratedItem(masteredIds[i])])

-----------------------------------------------------------------------------
(* Queue builder *)

\* the predicate of allProblems.filter, on the characters of the group and of the filter
GroupMatches(group, topicFilter) ==
    LET normalizedFilter == replaceSpaces(toLowerCase(topicFilter))
        problemGroup == replaceSpaces(toLowerCase(group))
        formattedGroup == toLowerCase(formatGroupName(group))
    IN  \/ includes(problemGroup, normalizedFilter)
        \/ includes(toLowerCase(formattedGroup), toLowerCase(topicFilter))
        \/ includes(toLowerCase(topicFilter), problemGroup)

\* the predicate, for every group and filter in use
TopicMatch == [g \in Groups, f \in TopicFilters |-> GroupMatches(Chars(g), Chars(f))]

MatchesTopic(p, topicFilter) == TopicMatch[p.problemGroup, topicFilter]

\* allProblems after the topic filter (an empty or absent filter is falsy)
FilteredProblems(allProblems, topicFilter) ==
    IF topicFilter # "" /\ topicFilter # "all_mastered"
    THEN SelectSeq(allProblems, LAMBDA p : MatchesTopic(p, topicFilter))
    ELSE allProblems

HasTitle(problems, title) == \E i \in 1..Len(problems) : problems[i].title = title

\* Array.prototype.find by title
FindByTitle(problems, title) ==
    problems[CHOOSE i \in 1..Len(problems) :
                /\ problems[i].title = title
                /\ \A j \in 1..(i - 1) : problems[j].title # title]

\* Math.ceil(a / b) for b > 0
CeilDiv(a, b) == -((-a) \div b)

\* Array.prototype.slice(0, end)
Slice0(s, end) ==
    LET stop == IF end < 0 THEN Max(Len(s) + end, 0) ELSE Min(end, Len(s))
    IN  SubSeq(s, 1, stop)

\* faulty variant: the new problems stay in catalog order
SortByDifficulty_CatalogOrder(problems) == problems

\* the stable sort by difficulty rank: easy, then medium, then hard, each in list order
SortByDifficulty(problems) ==
    SelectSeq(problems, LAMBDA p : p.difficulty = "easy")
    \o SelectSeq(problems, LAMBDA p : p.difficulty = "medium")
    \o SelectSeq(problems, LAMBDA p : p.difficulty = "hard")

DaysPassed(cfg, t) == (t - cfg.startDate) \div TicksPerDay
DaysLeft(cfg, t) == Max(1, cfg.targetDays - DaysPassed(cfg, t))

\* faulty variant: no days are kept back as a buffer for reviews
NewPerDay_NoBuffer(cfg, allProgress, allProblems, t) ==
    LET filteredProgress == SelectSeq(allProgress, LAMBDA p : HasTitle(allProblems, p.problemTitle))
        introducedCount == Len(SelectSeq(filteredProgress, LAMBDA p : p.status # "new"))
        remainingNew == Len(allProblems) - introducedCount
        effectiveDaysLeft == Max(1, DaysLeft(cfg, t))
    IN  CeilDiv(remainingNew, effectiveDaysLeft)

NewPerDay(cfg, allProgress, allProblems, t) ==
    LET filteredProgress == SelectSeq(allProgress, LAMBDA p : HasTitle(allProblems, p.problemTitle))
        introducedCount == Len(SelectSeq(filteredProgress, LAMBDA p : p.status # "new"))
        remainingNew == Len(allProblems) - introducedCount
        bufferDays == 2
        effectiveDaysLeft == Max(1, DaysLeft(cfg, t) - bufferDays)
    IN  CeilDiv(remainingNew, effectiveDaysLeft)

\* faulty variant: every due row of the filtered catalog is a candidate
DueProblems_NoFilter(dueReviews, allProblems) ==
    LET filteredDueReviews == SelectSeq(dueReviews, LAMBDA p : HasTitle(allProblems, p.problemTitle))
    IN  [i \in 1..Len(filteredDueReviews) |->
            FindByTitle(allProblems, filteredDueReviews[i].problemTitle)]

\* the catalog problems of the due rows still short of their reviews, in due order
DueProblems(dueReviews, allProblems) ==
    LET filteredDueReviews == SelectSeq(dueReviews, LAMBDA p : HasTitle(allProblems, p.problemTitle))
        open == SelectSeq(filteredDueReviews, LAMBDA p : p.reviewsCompleted < p.reviewsNeeded)
    IN  [i \in 1..Len(open) |-> FindByTitle(allProblems, open[i].problemTitle)]

\* the catalog problems without a progress row, easiest first
NewProblems(allProgress, allProblems) ==
    SortByDifficulty(SelectSeq(allProblems,
        LAMBDA p : ~ \E i \in 1..Len(allProgress) : allProgress[i].problemTitle = p.title))

\* faulty variant: every due problem is pushed, whatever the cap
PushReviews_NoCap(queue, dueProblems, dailyCap) == queue \o dueProblems

\* the loop that pushes due problems until the cap is reached
RECURSIVE PushReviews(_, _, _)
PushReviews(queue, dueProblems, dailyCap) ==
    IF dueProblems = <<>> \/ Len(queue) >= dailyCap THEN queue
    ELSE PushReviews(Append(queue, Head(dueProblems)), Tail(dueProblems), dailyCap)

\* faulty variant: the reviews already queued are not counted against the cap
SlotsForNew_IgnoreQueued(newPerDay, dailyCap, queued) == Min(newPerDay, dailyCap)

SlotsForNew(newPerDay, dailyCap, queued) == Min(newPerDay, dailyCap - queued)

\* faulty variant: the new problems are counted within the topic
BuildQueue_FilteredStats(cfg, allProgress, dueReviews, dueTomorrow, problems, topicFilter, t) ==
    LET allProblems == FilteredProblems(problems, topicFilter)
        newPerDay == NewPerDay(cfg, allProgress, allProblems, t)
        dueProblems == DueProblems(dueReviews, allProblems)
        newProblems == NewProblems(allProgress, allProblems)
        reviews == PushReviews(<<>>, dueProblems, cfg.dailyCap)
        slotsForNew == SlotsForNew(newPerDay, cfg.dailyCap, Len(reviews))
        queue == reviews \o Slice0(newProblems, slotsForNew)
    IN  [queue |-> queue,
         stats |->
            [totalProblems |-> TOTAL_BLIND_75,
             newCount |-> TOTAL_BLIND_75
                 - Len(SelectSeq(allProgress, LAMBDA p : HasTitle(allProblems, p.problemTitle))),
             learningCount |-> Len(SelectSeq(allProgress, LAMBDA p : p.status = "learning")),
             masteredCount |-> Len(SelectSeq(allProgress, LAMBDA p : p.status = "mastered")),
             dueToday |-> Len(dueReviews),
             dueTomorrow |-> Len(dueTomorrow),
             daysLeft |-> DaysLeft(cfg, t),
             \* length >= daysPassed * (75 / targetDays), without the division
             onPace |-> Len(allProgress) * cfg.targetDays >= DaysPassed(cfg, t) * TOTAL_BLIND_75,
             todaysQueue |->
                [newProblems |-> Min(slotsForNew, Len(newProblems)),
                 reviews |-> Min(Len(dueProblems), cfg.dailyCap),
                 total |-> Len(queue)]]]

\* what buildSpacedRepetitionQueue returns, from what its five reads returned
BuildQueue(cfg, allProgress, dueReviews, dueTomorrow, problems, topicFilter, t) ==
    LET allProblems == FilteredProblems(problems, topicFilter)
        newPerDay == NewPerDay(cfg, allProgress, allProblems, t)
        dueProblems == DueProblems(dueReviews, allProblems)
        newProblems == NewProblems(allProgress, allProblems)
        reviews == PushReviews(<<>>, dueProblems, cfg.dailyCap)
        slotsForNew == SlotsForNew(newPerDay, cfg.dailyCap, Len(reviews))
        queue == reviews \o Slice0(newProblems, slotsForNew)
    IN  [queue |-> queue,
         stats |->
            [totalProblems |-> TOTAL_BLIND_75,
             newCount |-> TOTAL_BLIND_75 - Len(allProgress),
             learningCount |-> Len(SelectSeq(allProgress, LAMBDA p : p.status = "learning")),
             masteredCount |-> Len(SelectSeq(allProgress, LAMBDA p : p.status = "mastered")),
             dueToday |-> Len(dueReviews),
             dueTomorrow |-> Len(dueTomorrow),
             daysLeft |-> DaysLeft(cfg, t),
             \* length >= daysPassed * (75 / targetDays), without the division
             onPace |-> Len(allProgress) * cfg.targetDays >= DaysPassed(cfg, t) * TOTAL_BLIND_75,
             todaysQueue |->
                [newProblems |-> Min(slotsForNew, Len(newProblems)),
                 reviews |-> Min(Len(dueProblems), cfg.dailyCap),
                 total |-> Len(queue)]]]

TitlesOf(problems) == [i \in 1..Len(problems) |-> problems[i].title]

-----------------------------------------------------------------------------
(* Inputs *)

Scores == {0, 60, 80, 90}

\* the partial settings given to updateSettings
SettingsUpdates == {[dailyCap |-> 1], [dailyCap |-> 2, targetDays |-> 3], [easyBonus |-> 0]}

\* a small problem table; title 4 is not in it
SmallCatalog ==
    << [title |-> 1, difficulty |-> "hard", problemGroup |-> "two_pointers"],
       [title |-> 2, difficulty |-> "medium", problemGroup |-> "arrays_hashing"],
       [title |-> 3, difficulty |-> "easy", problemGroup |-> "arrays_hashing"] >>

\* the masteredIds lists found in localStorage
MigrationInputs == {<<>>, <<2>>, <<1, 4>>}

-----------------------------------------------------------------------------
(* Operations: what one call does to the store and what it returns *)

StoredRow(title) == IF title \in DOMAIN progress THEN progress[title] ELSE NoProgress

CallGetSettingsWithDefaults ==
    /\ settings' = SettingsAfterGet(fetchUserStudySettings)
    /\ last' = [op |-> "getSettings", created |-> (settings = NoSettings),
                returned |-> getSettingsWithDefaults(fetchUserStudySettings)]
    /\ UNCHANGED <<catalog, progress, now, loadedAt, calls, maxSeen>>

\* two calls of getSettingsWithDefaults, one right after the other
CallGetSettingsTwice ==
    LET first == getSettingsWithDefaults(fetchUserStudySettings)
        persisted == SettingsAfterGet(fetchUserStudySettings)
        second == getSettingsWithDefaults(persisted)
    IN  /\ settings' = SettingsAfterGet(persisted)
        /\ last' = [op |-> "getSettingsTwice", created |-> (settings = NoSettings),
                    first |-> first, persisted |-> persisted, second |-> second]
        /\ UNCHANGED <<catalog, progress, now, loadedAt, calls, maxSeen>>

CallUpdateSettings(updates) ==
    /\ settings' = upsertUserStudySettings(settings, updates)
    /\ calls' = calls + 1
    /\ last' = [op |-> "updateSettings", updates |-> updates]
    /\ UNCHANGED <<catalog, progress, now, loadedAt, maxSeen>>

CallResetStudyPlan ==
    /\ settings' = resetStudyPlan(settings)
    /\ calls' = calls + 1
    /\ last' = [op |-> "resetStudyPlan", previous |-> settings, progressBefore |-> progress]
    /\ UNCHANGED <<catalog, progress, now, loadedAt, maxSeen>>

\* the caller passes the problem's difficulty and the row it fetched as existingProgress
CallUpdateProgressAfterAttempt(problem, score) ==
    LET cfg == getSettingsWithDefaults(fetchUserStudySettings)
        existingProgress == StoredRow(problem.title)
    IN  /\ settings' = SettingsAfterGet(fetchUserStudySettings)
        /\ progress' = upsertRow(progress, problem.title,
                AttemptFields(score, problem.difficulty, existingProgress, cfg.easyBonus, now))
        /\ calls' = calls + 1
        /\ maxSeen' =
            IF existingProgress = NoProgress
            THEN [t \in DOMAIN maxSeen \cup {problem.title} |->
                    IF t = problem.title THEN score ELSE maxSeen[t]]
            ELSE [t \in DOMAIN maxSeen |->
                    IF t = problem.title THEN Max(maxSeen[t], score) ELSE maxSeen[t]]
        /\ last' = [op |-> "attempt", title |-> problem.title, score |-> score,
                    difficulty |-> problem.difficulty, existing |-> existingProgress,
                    easyBonus |-> cfg.easyBonus]
        /\ UNCHANGED <<catalog, now, loadedAt>>

CallBuildSpacedRepetitionQueue(topicFilter) ==
    LET cfg == getSettingsWithDefaults(fetchUserStudySettings)
        built == BuildQueue(cfg, fetchAllUserProgress(progress), fetchDueReviews(progress, now),
                            fetchDueTomorrow(progress, now), fetchAllBlindProblems, topicFilter, now)
    IN  /\ settings' = SettingsAfterGet(fetchUserStudySettings)
        /\ last' = [op |-> "buildQueue", topicFilter |-> topicFilter, cfg |-> cfg,
                    queue |-> TitlesOf(built.queue), stats |-> built.stats]
        /\ UNCHANGED <<catalog, progress, now, loadedAt, calls, maxSeen>>

CallMigrateFromLocalStorage(masteredIds) ==
    /\ progress' = migrateFromLocalStorage(progress, masteredIds)
    /\ calls' = IF Len(masteredIds) = 0 THEN calls ELSE calls + 1
    /\ maxSeen' = [t \in DOMAIN maxSeen \ {masteredIds[i] : i \in 1..Len(masteredIds)} |-> maxSeen[t]]
    /\ last' = [op |-> "migrate", masteredIds |-> masteredIds]
    /\ UNCHANGED <<catalog, settings, now, loadedAt>>

-----------------------------------------------------------------------------
(* The service called by one user, in any order, from a fresh store *)

GetSettingsWithDefaults ==
    /\ last.op = "idle"
    /\ CallGetSettingsWithDefaults
    /\ UNCHANGED session

\* the first two calls made for a user who has no settings row yet
GetSettingsTwice ==
    /\ last.op = "idle"
    /\ settings = NoSettings
    /\ CallGetSettingsTwice
    /\ UNCHANGED session

UpdateSettings(updates) ==
    /\ last.op = "idle"
    /\ calls < MaxCalls
    /\ CallUpdateSettings(updates)
    /\ UNCHANGED session

ResetStudyPlan ==
    /\ last.op = "idle"
    /\ calls < MaxCalls
    /\ CallResetStudyPlan
    /\ UNCHANGED session

UpdateProgressAfterAttempt(problem, score) ==
    /\ last.op = "idle"
    /\ calls < MaxCalls
    /\ CallUpdateProgressAfterAttempt(problem, score)
    /\ UNCHANGED session

BuildSpacedRepetitionQueue(topicFilter) ==
    /\ last.op = "idle"
    /\ CallBuildSpacedRepetitionQueue(topicFilter)
    /\ UNCHANGED session

MigrateFromLocalStorage(masteredIds) ==
    /\ last.op = "idle"
    /\ calls < MaxCalls
    /\ CallMigrateFromLocalStorage(masteredIds)
    /\ UNCHANGED session

\* time passes
Tick ==
    /\ last.op = "idle"
    /\ now < MaxNow
    /\ now' = now + 1
    /\ UNCHANGED <<catalog, settings, progress, loadedAt, calls, maxSeen, last, session>>

\* the caller takes the result of the operation
Return ==
    /\ last.op # "idle"
    /\ last' = [op |-> "idle"]
    /\ UNCHANGED <<catalog, settings, progress, now, loadedAt, calls, maxSeen, session>>

Init ==
    /\ catalog = SmallCatalog
    /\ settings = NoSettings
    /\ progress = [t \in {} |-> NoProgress]
    /\ now = 0
    /\ loadedAt = 0
    /\ calls = 0
    /\ maxSeen = [t \in {} |-> 0]
    /\ last = [op |-> "idle"]
    /\ session = [phase |-> "none"]

Next ==
    \/ GetSettingsWithDefaults
    \/ GetSettingsTwice
    \/ \E updates \in SettingsUpdates : UpdateSettings(updates)
    \/ ResetStudyPlan
    \/ \E i \in 1..Len(catalog), score \in Scores : UpdateProgressAfterAttempt(catalog[i], score)
    \/ \E topicFilter \in TopicFilters : BuildSpacedRepetitionQueue(topicFilter)
    \/ \E masteredIds \in MigrationInputs : MigrateFromLocalStorage(masteredIds)
    \/ Tick
    \/ Return

Spec == Init /\ [][Next]_vars

-----------------------------------------------------------------------------
(* The study plan: a new user with the default settings and the 75 problems, *)
(* who every day builds the queue and attempts each of its problems once     *)

Blind75 ==
    [i \in 1..TOTAL_BLIND_75 |->
        [title |-> i,
         difficulty |-> IF i % 3 = 1 THEN "easy" ELSE IF i % 3 = 2 THEN "medium" ELSE "hard",
         problemGroup |-> IF i % 2 = 0 THEN "arrays_hashing" ELSE "two_pointers"]]

\* the score all of a day's attempts get
PlanScores == {0, 100}

PlanDay == DayOf(now)

\* the day's queue is built, without a topic filter
PlanBuild(score) ==
    /\ session.phase = "morning"
    /\ CallBuildSpacedRepetitionQueue("")
    /\ session' = [phase |-> "built", score |-> score]

\* the user takes the queue to work through
PlanStart ==
    /\ session.phase = "built"
    /\ session' = [phase |-> "practising", score |-> session.score, todo |-> last.queue]
    /\ last' = [op |-> "idle"]
    /\ UNCHANGED <<catalog, settings, progress, now, loadedAt, calls, maxSeen>>

\* the next problem of the queue is attempted
PlanAttempt ==
    /\ session.phase = "practising"
    /\ session.todo # <<>>
    /\ CallUpdateProgressAfterAttempt(FindByTitle(catalog, Head(session.todo)), session.score)
    /\ session' = [session EXCEPT !.todo = Tail(session.todo)]

\* the queue is done: the day ends
PlanEndDay ==
    /\ session.phase = "practising"
    /\ session.todo = <<>>
    /\ session' = [phase |-> "evening"]
    /\ last' = [op |-> "idle"]
    /\ UNCHANGED <<catalog, settings, progress, now, loadedAt, calls, maxSeen>>

\* the next day begins, up to the day that follows the target window
PlanNextDay ==
    /\ session.phase = "evening"
    /\ PlanDay < settings.targetDays
    /\ now' = Midnight(PlanDay + 1)
    /\ session' = [phase |-> "morning"]
    /\ UNCHANGED <<catalog, settings, progress, loadedAt, calls, maxSeen, last>>

InitPlan ==
    /\ catalog = Blind75
    /\ settings = NoSettings
    /\ progress = [t \in {} |-> NoProgress]
    /\ now = 0
    /\ loadedAt = 0
    /\ calls = 0
    /\ maxSeen = [t \in {} |-> 0]
    /\ last = [op |-> "idle"]
    /\ session = [phase |-> "morning"]

NextPlan ==
    \/ \E score \in PlanScores : PlanBuild(score)
    \/ PlanStart
    \/ PlanAttempt
    \/ PlanEndDay
    \/ PlanNextDay

SpecPlan == InitPlan /\ [][NextPlan]_vars

-----------------------------------------------------------------------------
(* Properties *)

Range(seq) == {seq[i] : i \in 1..Len(seq)}

\* the titles the store returned as due, at the time of the last call
DueTitles == {r.problemTitle : r \in Range(fetchDueReviews(progress, now))}

\* the due-review candidates of a queue built under a topic filter
DueCandidates(topicFilter) ==
    {t \in DueTitles :
        /\ HasTitle(FilteredProblems(catalog, topicFilter), t)
        /\ progress[t].reviewsCompleted < progress[t].reviewsNeeded}

\* the adjusted score of the last attempt
LastAdjustedScore ==
    last.score + (IF last.difficulty = "easy" THEN last.easyBonus
                  ELSE IF last.difficulty = "medium" THEN 0 ELSE -5)

\* C1: whenever dailyCap >= 1, the queue returned by buildSpacedRepetitionQueue
\* holds at most dailyCap problems
C1_QueueWithinCap ==
    (last.op = "buildQueue" /\ last.cfg.dailyCap >= 1)
        => Len(last.queue) <= last.cfg.dailyCap

\* C1 witness: a queue filled to the cap while more rows are due than the cap admits
C1_CapReached ==
    /\ last.op = "buildQueue"
    /\ last.stats.dueToday > last.cfg.dailyCap
    /\ Len(last.queue) = last.cfg.dailyCap

\* C2: in the returned queue the due reviews come before the new problems, and a new
\* problem is queued only if every due-review candidate is queued too
C2_ReviewsBeforeNew ==
    last.op = "buildQueue" =>
        /\ \A i, j \in 1..Len(last.queue) :
              (i < j /\ last.queue[i] \notin DOMAIN progress)
                 => last.queue[j] \notin DOMAIN progress
        /\ (\E i \in 1..Len(last.queue) : last.queue[i] \notin DOMAIN progress)
              => DueCandidates(last.topicFilter) \subseteq Range(last.queue)

\* C2 witness: a queue that holds a due review and, after it, a new problem
C2_ReviewThenNew ==
    /\ last.op = "buildQueue"
    /\ \E i, j \in 1..Len(last.queue) :
          /\ i < j
          /\ last.queue[i] \in DueCandidates(last.topicFilter)
          /\ last.queue[j] \notin DOMAIN progress

\* C3: once a row is stored as mastered, an updateProgressAfterAttempt on its problem
\* leaves it mastered with no next review
C3_MasteryIsTerminal ==
    [][\A t \in DOMAIN progress :
          (progress[t].status = "mastered" /\ last'.op = "attempt" /\ last'.title = t)
             => (progress'[t].status = "mastered" /\ progress'[t].nextReviewAt = Null)]_vars

\* C4: after a chain of attempts on a problem, each given the stored row, the stored
\* bestScore is the highest score of the chain
C4_BestScoreIsMax ==
    \A t \in DOMAIN maxSeen : progress[t].bestScore = maxSeen[t]

\* C4 witness: an attempt that scored below the best score stored before it
C4_LowerScoreAfterBest ==
    /\ last.op = "attempt"
    /\ last.title \in DOMAIN maxSeen
    /\ last.existing # NoProgress
    /\ last.score < last.existing.bestScore

\* C5: no operation that writes progress lowers the stored bestScore of a row
C5_BestScoreNeverDecreases ==
    [][\A t \in DOMAIN progress : progress'[t].bestScore >= progress[t].bestScore]_vars

\* C6: every stored row is mastered exactly when reviewsNeeded = 0 or
\* reviewsCompleted >= reviewsNeeded, is learning otherwise, and is never new
C6_StatusFollowsReviews ==
    \A t \in DOMAIN progress :
        LET r == progress[t]
            done == r.reviewsNeeded = 0 \/ r.reviewsCompleted >= r.reviewsNeeded
        IN  /\ r.status \in {"mastered", "learning"}
            /\ r.status = "mastered" <=> done

\* C6 witness: a learning row next to a row mastered by completing the reviews it needed
C6_LearningAndMasteredRows ==
    \E t, u \in DOMAIN progress :
        /\ progress[t].status = "learning"
        /\ progress[u].status = "mastered"
        /\ progress[u].reviewsNeeded > 0

\* C7: an attempt whose adjusted score is at least 85 stores reviewsNeeded = 0, status
\* mastered and no next review, whatever the row held before
C7_StrongAttemptMasters ==
    (last.op = "attempt" /\ LastAdjustedScore >= 85) =>
        /\ progress[last.title].reviewsNeeded = 0
        /\ progress[last.title].status = "mastered"
        /\ progress[last.title].nextReviewAt = Null

\* C7 witness: such an attempt on a row that was learning and needed three reviews
C7_StrongAttemptOnWeakRow ==
    /\ last.op = "attempt"
    /\ LastAdjustedScore >= 85
    /\ last.existing # NoProgress
    /\ last.existing.status = "learning"
    /\ last.existing.reviewsNeeded = 3

\* C8: following the plan from the first day, every catalog problem has a progress row
\* once the last day of the target window is over
C8_CatalogIntroducedInTargetDays ==
    (session.phase = "evening" /\ PlanDay >= settings.targetDays - 1)
        => \A i \in 1..Len(catalog) : catalog[i].title \in DOMAIN progress

\* C9: under the topic filter "Arrays & Hashing" every problem of the group
\* arrays_hashing stays in the candidate catalog
C9_ArraysHashingFilterMatches ==
    (last.op = "buildQueue" /\ last.topicFilter = "Arrays & Hashing") =>
        \A i \in 1..Len(catalog) :
            catalog[i].problemGroup = "arrays_hashing"
               => HasTitle(FilteredProblems(catalog, last.topicFilter), catalog[i].title)

\* C10: the default settings that getSettingsWithDefaults creates carry the time of
\* the call as startDate, in the store and in what is returned
C10_DefaultStartDateIsNow ==
    (last.op = "getSettings" /\ last.created) =>
        /\ settings.startDate = now
        /\ last.returned.startDate = now

\* C11: for a user without stored settings, two successive getSettingsWithDefaults
\* calls return the same settings, and the second returns what the first persisted
C11_SecondGetReturnsPersisted ==
    (last.op = "getSettingsTwice" /\ last.created) =>
        /\ last.first = last.second
        /\ last.persisted # NoSettings
        /\ last.second = last.persisted
        /\ settings = last.persisted

\* C11 witness: the two calls made for a new user some time after the module was loaded
C11_TwoGetsForNewUser ==
    /\ last.op = "getSettingsTwice"
    /\ last.created
    /\ now > loadedAt

\* C14: after an attempt made on day d the stored next review is the midnight that
\* starts day d + 1 when the row is learning, and null when it is mastered
C14_NextReviewAtNextMidnight ==
    last.op = "attempt" =>
        LET r == progress[last.title]
        IN  /\ r.status = "learning" => r.nextReviewAt = ((now \div TicksPerDay) + 1) * TicksPerDay
            /\ r.status = "mastered" => r.nextReviewAt = Null

\* C14 witness: an attempt made after midnight of its day that leaves the row learning
C14_LearningAfterLateAttempt ==
    /\ last.op = "attempt"
    /\ now % TicksPerDay # 0
    /\ progress[last.title].status = "learning"

\* C20: resetStudyPlan leaves the settings at the defaults with the time of the call as
\* startDate, whatever they were, and leaves every progress row as it was
C20_ResetRestoresDefaults ==
    last.op = "resetStudyPlan" =>
        /\ settings = [targetDays |-> 10, dailyCap |-> 15, easyBonus |-> 10, startDate |-> now]
        /\ progress = last.progressBefore

\* C20 witness: a reset of changed settings, after the module was loaded, with progress stored
C20_ResetOfChangedSettings ==
    /\ last.op = "resetStudyPlan"
    /\ last.previous # NoSettings
    /\ last.previous.dailyCap # 15
    /\ now > loadedAt
    /\ DOMAIN progress # {}

-----------------------------------------------------------------------------
(* The review policy on its own: the two pure functions applied to bounded inputs *)

\* scores run from ScoreSlack below 0 to ScoreSlack above 100
ScoreSlack == 10
\* easy bonuses run from -MaxBonus to MaxBonus
MaxBonus == 10
\* review counts run from 0 to MaxReviews
MaxReviews == 4

PolicyScores == (0 - ScoreSlack)..(100 + ScoreSlack)
EasyBonuses == (0 - MaxBonus)..MaxBonus
Difficulties == {"easy", "medium", "hard"}

\* calculateReviewsNeeded, for two scores and the three difficulties
Calculate(score, other, easyBonus) ==
    /\ session.phase = "policy"
    /\ last.op = "idle"
    /\ last' = [op |-> "calculate", score |-> score, other |-> other, easyBonus |-> easyBonus,
                reviews |-> [d \in Difficulties |-> calculateReviewsNeeded(score, d, easyBonus)],
                otherReviews |-> [d \in Difficulties |-> calculateReviewsNeeded(other, d, easyBonus)]]
    /\ UNCHANGED <<catalog, settings, progress, now, loadedAt, calls, maxSeen, session>>

Determine(reviewsCompleted, reviewsNeeded) ==
    /\ session.phase = "policy"
    /\ last.op = "idle"
    /\ last' = [op |-> "determine", reviewsCompleted |-> reviewsCompleted,
                reviewsNeeded |-> reviewsNeeded,
                status |-> determineStatus(reviewsCompleted, reviewsNeeded)]
    /\ UNCHANGED <<catalog, settings, progress, now, loadedAt, calls, maxSeen, session>>

InitPolicy ==
    /\ catalog = SmallCatalog
    /\ settings = NoSettings
    /\ progress = [t \in {} |-> NoProgress]
    /\ now = 0
    /\ loadedAt = 0
    /\ calls = 0
    /\ maxSeen = [t \in {} |-> 0]
    /\ last = [op |-> "idle"]
    /\ session = [phase |-> "policy"]

\* the inputs are drawn only when a call can start
NextPolicy ==
    \/ /\ last.op = "idle"
       /\ \E score \in PolicyScores, other \in PolicyScores, easyBonus \in EasyBonuses :
              Calculate(score, other, easyBonus)
    \/ /\ last.op = "idle"
       /\ \E reviewsCompleted \in 0..MaxReviews, reviewsNeeded \in 0..MaxReviews :
              Determine(reviewsCompleted, reviewsNeeded)
    \/ Return

SpecPolicy == InitPolicy /\ [][NextPolicy]_vars

\* C15: calculateReviewsNeeded is 0 from an adjusted score of 85, 1 from 75, 2 from 50 and
\* 3 below, the adjusted score being score + easyBonus for easy, score for medium and
\* score - 5 for hard; the result is one of 0, 1, 2, 3 for scores outside 0..100 as well
C15_ReviewsNeededTable ==
    last.op = "calculate" =>
        \A d \in Difficulties :
            LET adjusted == CASE d = "easy" -> last.score + last.easyBonus
                              [] d = "medium" -> last.score
                              [] d = "hard" -> last.score - 5
                expected == CASE adjusted >= 85 -> 0
                              [] adjusted >= 75 /\ adjusted < 85 -> 1
                              [] adjusted >= 50 /\ adjusted < 75 -> 2
                              [] adjusted < 50 -> 3
            IN  /\ last.reviews[d] = expected
                /\ last.reviews[d] \in {0, 1, 2, 3}

\* C15 witness: a negative score and a score above 100, with an easy bonus other than the
\* default, where the three difficulties need different numbers of reviews for the same score
C15_OutOfRangeScores ==
    /\ last.op = "calculate"
    /\ last.score < 0
    /\ last.other > 100
    /\ last.easyBonus \notin {0, 10}
    /\ last.reviews["hard"] = 3
    /\ last.otherReviews["easy"] = 0

\* C16: for one score and any stored easy bonus, easy needs at most as many reviews as
\* medium, and medium at most as many as hard
C16_EasyMediumHardOrder ==
    last.op = "calculate" =>
        /\ last.reviews["easy"] <= last.reviews["medium"]
        /\ last.reviews["medium"] <= last.reviews["hard"]

\* C17: for one difficulty and easy bonus, a score that is not lower never needs more reviews
C17_NonIncreasingInScore ==
    (last.op = "calculate" /\ last.score <= last.other) =>
        \A d \in Difficulties : last.reviews[d] >= last.otherReviews[d]

\* C17 witness: a lower and a higher score that need different numbers of reviews
C17_HigherScoreFewerReviews ==
    /\ last.op = "calculate"
    /\ last.score < last.other
    /\ \A d \in Difficulties : last.reviews[d] > last.otherReviews[d]

\* C18: determineStatus is mastered when no review is needed, mastered when the reviews
\* completed equal the reviews needed, and learning when one review is missing
C18_StatusAtTheBoundary ==
    last.op = "determine" =>
        /\ last.reviewsNeeded = 0 => last.status = "mastered"
        /\ last.reviewsCompleted = last.reviewsNeeded => last.status = "mastered"
        /\ (last.reviewsNeeded >= 1 /\ last.reviewsCompleted = last.reviewsNeeded - 1) =>
               last.status = "learning"

\* C18 witness: one review missing out of several
C18_OneReviewMissing ==
    /\ last.op = "determine"
    /\ last.reviewsNeeded >= 2
    /\ last.reviewsCompleted = last.reviewsNeeded - 1

-----------------------------------------------------------------------------
(* The number of new problems in a queue *)

\* C19: the queue holds min(newPerDay, dailyCap - reviews queued, unattempted problems of
\* the filtered catalog) new problems, with daysLeft = max(1, targetDays - daysPassed) and
\* newPerDay = ceil(remainingNew / max(1, daysLeft - 2)); 75 problems, 10 target days, a
\* cap of 15, no progress and no day passed give exactly 10 new problems and onPace true
C19_NewProblemsInQueue ==
    last.op = "buildQueue" =>
        LET filtered == FilteredProblems(catalog, last.topicFilter)
            filteredTitles == {filtered[i].title : i \in 1..Len(filtered)}
            unattempted == filteredTitles \ DOMAIN progress
            introduced == {t \in filteredTitles \cap DOMAIN progress : progress[t].status # "new"}
            remainingNew == Cardinality(filteredTitles) - Cardinality(introduced)
            daysPassed == (now - last.cfg.startDate) \div TicksPerDay
            daysLeft == IF last.cfg.targetDays - daysPassed >= 1
                        THEN last.cfg.targetDays - daysPassed ELSE 1
            effectiveDaysLeft == IF daysLeft - 2 >= 1 THEN daysLeft - 2 ELSE 1
            newPerDay == (remainingNew + effectiveDaysLeft - 1) \div effectiveDaysLeft
            newInQueue == {i \in 1..Len(last.queue) : last.queue[i] \notin DOMAIN progress}
            reviewsQueued == Len(last.queue) - Cardinality(newInQueue)
            smallest == CHOOSE m \in {newPerDay, last.cfg.dailyCap - reviewsQueued,
                                      Cardinality(unattempted)} :
                            /\ m <= newPerDay
                            /\ m <= last.cfg.dailyCap - reviewsQueued
                            /\ m <= Cardinality(unattempted)
        IN  /\ Cardinality(newInQueue) = smallest
            /\ last.stats.daysLeft = daysLeft
            /\ (/\ Len(catalog) = 75
                /\ DOMAIN progress = {}
                /\ daysPassed = 0
                /\ last.cfg.targetDays = 10
                /\ last.cfg.dailyCap = 15)
               => /\ newPerDay = 10
                  /\ Len(last.queue) = 10
                  /\ Cardinality(newInQueue) = 10
                  /\ last.stats.onPace

\* C19 witness: the queue of the first day of a plan over the 75 problems
C19_FirstDayOfThePlan ==
    /\ last.op = "buildQueue"
    /\ Len(catalog) = 75
    /\ DOMAIN progress = {}
    /\ now = 0
    /\ last.cfg.targetDays = 10
    /\ last.cfg.dailyCap = 15
    /\ Len(last.queue) = 10

-----------------------------------------------------------------------------
(* Store failures: a store call may fail while an operation awaits it *)

\* the five reads of buildSpacedRepetitionQueue, in the order they are awaited
StoreReads == <<"settings", "allProgress", "dueReviews", "dueTomorrow", "catalog">>
\* a call in which no read fails, or the one read that fails
FailedReads == {"none"} \cup {StoreReads[i] : i \in 1..Len(StoreReads)}

\* how upsertUserStudySettings may end: the row is stored and returned, the write fails
\* and the call resolves to null, or the write fails and the call rejects
WriteOutcomes == {"stored", "null", "rejected"}

NoResult == [none |-> TRUE]

\* the scores of the attempts made between the failing calls: a weak and a strong one
FaultScores == {0, 90}

\* faulty variant: a failed read is caught and the operation goes on
ReadAborts_Caught(failedRead, read) == FALSE

\* a read that fails rejects, and the operation awaits it without a handler
ReadAborts(failedRead, read) == failedRead = read

\* getSettingsWithDefaults when the write of the defaults ends with the given outcome:
\* what it returns, what the store holds afterwards, whether the write failed and
\* whether the caller sees a failure
GetSettingsUnderFault(stored, outcome) ==
    IF stored # NoSettings
    THEN [threw |-> FALSE, returned |-> stored, after |-> stored, writeFailed |-> FALSE]
    ELSE CASE outcome = "stored" ->
                [threw |-> FALSE, returned |-> DEFAULT_SETTINGS,
                 after |-> upsertUserStudySettings(stored, DEFAULT_SETTINGS),
                 writeFailed |-> FALSE]
           [] outcome = "null" ->
                \* the value the write resolves to is not looked at
                [threw |-> FALSE, returned |-> DEFAULT_SETTINGS, after |-> stored,
                 writeFailed |-> TRUE]
           [] outcome = "rejected" ->
                [threw |-> TRUE, returned |-> NoResult, after |-> stored,
                 writeFailed |-> TRUE]

\* buildSpacedRepetitionQueue when one of its reads fails or the write of the defaults
\* ends with the given outcome
BuildUnderFault(stored, failedRead, outcome, topicFilter) ==
    IF ReadAborts(failedRead, StoreReads[1])
    THEN [threw |-> TRUE, result |-> NoResult, after |-> stored, writeFailed |-> FALSE]
    ELSE LET got == GetSettingsUnderFault(stored, outcome)
         IN  IF got.threw \/ \E i \in 2..Len(StoreReads) : ReadAborts(failedRead, StoreReads[i])
             THEN [threw |-> TRUE, result |-> NoResult, after |-> got.after,
                   writeFailed |-> got.writeFailed]
             ELSE LET built == BuildQueue(got.returned, fetchAllUserProgress(progress),
                                          fetchDueReviews(progress, now),
                                          fetchDueTomorrow(progress, now),
                                          fetchAllBlindProblems, topicFilter, now)
                  IN  [threw |-> FALSE,
                       result |-> [queue |-> TitlesOf(built.queue), stats |-> built.stats],
                       after |-> got.after, writeFailed |-> got.writeFailed]

GetSettingsWithFault(outcome) ==
    /\ session.phase = "faults"
    /\ last.op = "idle"
    /\ LET got == GetSettingsUnderFault(fetchUserStudySettings, outcome)
       IN  /\ settings' = got.after
           /\ last' = [op |-> "getSettings", outcome |-> outcome, threw |-> got.threw,
                       writeFailed |-> got.writeFailed, returned |-> got.returned]
    /\ UNCHANGED <<catalog, progress, now, loadedAt, calls, maxSeen, session>>

BuildQueueWithFault(failedRead, outcome) ==
    /\ session.phase = "faults"
    /\ last.op = "idle"
    /\ LET got == BuildUnderFault(fetchUserStudySettings, failedRead, outcome, "")
       IN  /\ settings' = got.after
           /\ last' = [op |-> "buildQueue", failedRead |-> failedRead, outcome |-> outcome,
                       threw |-> got.threw, writeFailed |-> got.writeFailed,
                       result |-> got.result]
    /\ UNCHANGED <<catalog, progress, now, loadedAt, calls, maxSeen, session>>

InitFaults ==
    /\ catalog = SmallCatalog
    /\ settings = NoSettings
    /\ progress = [t \in {} |-> NoProgress]
    /\ now = 0
    /\ loadedAt = 0
    /\ calls = 0
    /\ maxSeen = [t \in {} |-> 0]
    /\ last = [op |-> "idle"]
    /\ session = [phase |-> "faults"]

NextFaults ==
    \/ \E outcome \in WriteOutcomes : GetSettingsWithFault(outcome)
    \/ \E failedRead \in FailedReads, outcome \in WriteOutcomes :
           BuildQueueWithFault(failedRead, outcome)
    \/ \E i \in 1..Len(catalog), score \in FaultScores :
           UpdateProgressAfterAttempt(catalog[i], score)
    \/ Tick
    \/ Return

SpecFaults == InitFaults /\ [][NextFaults]_vars

\* C12: when the write of the default settings fails inside getSettingsWithDefaults, called
\* directly or by buildSpacedRepetitionQueue, the caller sees a failure and gets no settings
\* or queue as if the defaults had been stored
C12_FailedDefaultWriteIsReported ==
    (last.op \in {"getSettings", "buildQueue"} /\ last.writeFailed) => last.threw

-----------------------------------------------------------------------------
(* The order of the new problems, the third attempt, the next review of mastered rows *)

\* the position of a difficulty in the order easy, medium, hard
DifficultyRank(difficulty) ==
    CASE difficulty = "easy" -> 0
      [] difficulty = "medium" -> 1
      [] difficulty = "hard" -> 2

\* the position of a title in the catalog
CatalogIndex(title) == CHOOSE i \in 1..Len(catalog) : catalog[i].title = title

\* problem a comes before problem b among the new problems
ComesBefore(a, b) ==
    \/ DifficultyRank(catalog[CatalogIndex(a)].difficulty)
           < DifficultyRank(catalog[CatalogIndex(b)].difficulty)
    \/ /\ catalog[CatalogIndex(a)].difficulty = catalog[CatalogIndex(b)].difficulty
       /\ CatalogIndex(a) < CatalogIndex(b)

\* the titles of the queue that have no progress row
NewInQueue == SelectSeq(last.queue, LAMBDA t : t \notin DOMAIN progress)

\* the titles of the filtered catalog that have no progress row
UnattemptedTitles(topicFilter) ==
    {p.title : p \in {q \in Range(FilteredProblems(catalog, topicFilter)) :
                        q.title \notin DOMAIN progress}}

C27_ThirdAttemptMasters ==
    (last.op = "attempt" /\ progress[last.title].reviewsCompleted >= 3) =>
        /\ progress[last.title].status = "mastered"
        /\ progress[last.title].nextReviewAt = Null

\* C27 witness: a third attempt with the weakest score on a row that was learning
C27_WeakThirdAttempt ==
    /\ last.op = "attempt"
    /\ last.score = 0
    /\ last.existing # NoProgress
    /\ last.existing.status = "learning"
    /\ progress[last.title].reviewsCompleted = 3

\* C29: whatever attempts and migrations were made, a stored row has no next review
\* exactly when its status is mastered
C29_NoNextReviewIffMastered ==
    \A t \in DOMAIN progress :
        (progress[t].nextReviewAt = Null) <=> (progress[t].status = "mastered")

-----------------------------------------------------------------------------
(* One user's day: attempts, migrations and queues, with the attempts of the day noted *)

\* a due read that goes by the next review time alone and returns mastered rows too
fetchDueReviews_ByDateOnly(rows, t) ==
    RowsInOrder(rows, {x \in DOMAIN rows :
        /\ rows[x].nextReviewAt # Null
        /\ rows[x].nextReviewAt <= t})

\* what the due read of a call returned
DueRead(staleDue) ==
    IF staleDue THEN fetchDueReviews_ByDateOnly(progress, now) ELSE fetchDueReviews(progress, now)

\* buildSpacedRepetitionQueue, the due read returning stale rows or not
CallBuildWithDueRead(topicFilter, staleDue) ==
    LET cfg == getSettingsWithDefaults(fetchUserStudySettings)
        built == BuildQueue(cfg, fetchAllUserProgress(progress), DueRead(staleDue),
                            fetchDueTomorrow(progress, now), fetchAllBlindProblems, topicFilter, now)
    IN  /\ settings' = SettingsAfterGet(fetchUserStudySettings)
        /\ last' = [op |-> "buildQueue", topicFilter |-> topicFilter, cfg |-> cfg,
                    staleDue |-> staleDue,
                    queue |-> TitlesOf(built.queue), stats |-> built.stats]
        /\ UNCHANGED <<catalog, progress, now, loadedAt, calls, maxSeen>>

DayAttempt(problem, score) ==
    /\ session.phase = "day"
    /\ last.op = "idle"
    /\ calls < MaxCalls
    /\ CallUpdateProgressAfterAttempt(problem, score)
    /\ session' = [session EXCEPT !.attemptedToday = @ \cup {problem.title}]

DayMigrate(masteredIds) ==
    /\ session.phase = "day"
    /\ last.op = "idle"
    /\ calls < MaxCalls
    /\ CallMigrateFromLocalStorage(masteredIds)
    /\ UNCHANGED session

DayBuild(topicFilter, staleDue) ==
    /\ session.phase = "day"
    /\ last.op = "idle"
    /\ CallBuildWithDueRead(topicFilter, staleDue)
    /\ UNCHANGED session

\* time passes; at midnight the attempts of the day are forgotten
DayTick ==
    /\ session.phase = "day"
    /\ last.op = "idle"
    /\ now < MaxNow
    /\ now' = now + 1
    /\ session' = [session EXCEPT !.attemptedToday =
                        IF DayOf(now + 1) = DayOf(now) THEN @ ELSE {}]
    /\ UNCHANGED <<catalog, settings, progress, loadedAt, calls, maxSeen, last>>

InitDay ==
    /\ catalog = SmallCatalog
    /\ settings = NoSettings
    /\ progress = [t \in {} |-> NoProgress]
    /\ now = 0
    /\ loadedAt = 0
    /\ calls = 0
    /\ maxSeen = [t \in {} |-> 0]
    /\ last = [op |-> "idle"]
    /\ session = [phase |-> "day", attemptedToday |-> {}]

NextDay ==
    \/ \E i \in 1..Len(catalog), score \in FaultScores : DayAttempt(catalog[i], score)
    \/ \E masteredIds \in MigrationInputs \ {<<>>} : DayMigrate(masteredIds)
    \/ \E topicFilter \in TopicFilters, staleDue \in BOOLEAN : DayBuild(topicFilter, staleDue)
    \/ DayTick
    \/ Return

SpecDay == InitDay /\ [][NextDay]_vars

\* the stats without todaysQueue
StatsCore(stats) ==
    [f \in {"totalProblems", "newCount", "learningCount", "masteredCount",
            "dueToday", "dueTomorrow", "daysLeft", "onPace"} |-> stats[f]]

\* the stats of the queue built from the same store at the same time under another filter
StatsUnder(topicFilter) ==
    BuildQueue(last.cfg, fetchAllUserProgress(progress), DueRead(last.staleDue),
               fetchDueTomorrow(progress, now), fetchAllBlindProblems, topicFilter, now).stats

\* C22: for one store state and time, totalProblems, newCount, learningCount,
\* masteredCount, dueToday, dueTomorrow, daysLeft and onPace are the same under every
\* topic filter, the empty one included
C22_StatsIgnoreTopicFilter ==
    last.op = "buildQueue" =>
        \A topicFilter \in TopicFilters :
            StatsCore(StatsUnder(topicFilter)) = StatsCore(last.stats)

\* C22 witness: a queue built with progress stored whose todaysQueue differs under
\* another filter
C22_TodaysQueueFollowsFilter ==
    /\ last.op = "buildQueue"
    /\ DOMAIN progress # {}
    /\ \E topicFilter \in TopicFilters :
           StatsUnder(topicFilter).todaysQueue # last.stats.todaysQueue

C28_AttemptedTodayNotQueued ==
    last.op = "buildQueue" => Range(last.queue) \cap session.attemptedToday = {}

\* C28 witness: a queue built later on the day of an attempt that left its row learning
C28_QueueAfterAttemptSameDay ==
    /\ last.op = "buildQueue"
    /\ now % TicksPerDay # 0
    /\ \E t \in session.attemptedToday :
           /\ progress[t].status = "learning"
           /\ HasTitle(FilteredProblems(catalog, last.topicFilter), t)
    /\ last.queue # <<>>

-----------------------------------------------------------------------------
(* Two calls of updateProgressAfterAttempt given the same existingProgress: a retry
   after the first call has returned, or a second call while the first is in flight *)

NoCall == [pc |-> "none"]

\* the scores of the two calls: one that needs three reviews, one that masters at once
CallerScores == {0, 90}

\* the call has awaited getSettingsWithDefaults and holds its arguments and the easy bonus
PendingCall(problem, score, existingProgress, easyBonus, overlaps) ==
    [pc |-> "computed", title |-> problem.title, score |-> score,
     difficulty |-> problem.difficulty, existing |-> existingProgress,
     easyBonus |-> easyBonus, overlaps |-> overlaps, day |-> Null, stored |-> NoProgress]

\* the first call: the caller passes the row it fetched
FirstBegin(problem, score) ==
    /\ session.phase = "callers"
    /\ session.first.pc = "none"
    /\ calls < MaxCalls
    /\ settings' = SettingsAfterGet(fetchUserStudySettings)
    /\ calls' = calls + 1
    /\ session' = [session EXCEPT !.first =
            PendingCall(problem, score, StoredRow(problem.title),
                        getSettingsWithDefaults(fetchUserStudySettings).easyBonus, FALSE)]
    /\ UNCHANGED <<catalog, progress, now, loadedAt, maxSeen, last>>

\* the second call, for the same problem and with the existingProgress of the first
SecondBegin(score) ==
    /\ session.phase = "callers"
    /\ session.first.pc # "none"
    /\ session.second.pc = "none"
    /\ settings' = SettingsAfterGet(fetchUserStudySettings)
    /\ session' = [session EXCEPT !.second =
            PendingCall(FindByTitle(catalog, session.first.title), score, session.first.existing,
                        getSettingsWithDefaults(fetchUserStudySettings).easyBonus,
                        session.first.pc = "computed")]
    /\ UNCHANGED <<catalog, progress, now, loadedAt, calls, maxSeen, last>>

\* a call upserts its columns and returns
CallerWrite(c) ==
    /\ session.phase = "callers"
    /\ session[c].pc = "computed"
    /\ LET call == session[c]
           rows == upsertRow(progress, call.title,
                        AttemptFields(call.score, call.difficulty, call.existing,
                                      call.easyBonus, now))
       IN  /\ progress' = rows
           /\ session' = [session EXCEPT ![c] =
                   [call EXCEPT !.pc = "done", !.day = DayOf(now), !.stored = rows[call.title]]]
    /\ UNCHANGED <<catalog, settings, now, loadedAt, calls, maxSeen, last>>

\* both calls have returned: the user goes on to another problem
CallersDone ==
    /\ session.phase = "callers"
    /\ session.first.pc = "done"
    /\ session.second.pc = "done"
    /\ session' = [session EXCEPT !.first = NoCall, !.second = NoCall]
    /\ UNCHANGED <<catalog, settings, progress, now, loadedAt, calls, maxSeen, last>>

InitCallers ==
    /\ catalog = SmallCatalog
    /\ settings = NoSettings
    /\ progress = [t \in {} |-> NoProgress]
    /\ now = 0
    /\ loadedAt = 0
    /\ calls = 0
    /\ maxSeen = [t \in {} |-> 0]
    /\ last = [op |-> "idle"]
    /\ session = [phase |-> "callers", first |-> NoCall, second |-> NoCall]

NextCallers ==
    \/ \E i \in 1..Len(catalog), score \in CallerScores : FirstBegin(catalog[i], score)
    \/ \E score \in CallerScores : SecondBegin(score)
    \/ \E c \in {"first", "second"} : CallerWrite(c)
    \/ CallersDone
    \/ Tick

SpecCallers == InitCallers /\ [][NextCallers]_vars

BothReturned == session.first.pc = "done" /\ session.second.pc = "done"

\* the reviewsCompleted of the row both calls were given
ReviewsBeforeCalls ==
    IF session.first.existing = NoProgress THEN 0 ELSE session.first.existing.reviewsCompleted

C26_BothAttemptsCounted ==
    (BothReturned /\ session.second.overlaps)
        => progress[session.first.title].reviewsCompleted = ReviewsBeforeCalls + 2

-----------------------------------------------------------------------------
(* getSettingsWithDefaults in its two awaited steps, with updateSettings in between *)

NoUpdate == [none |-> TRUE]

\* await fetchUserStudySettings: a stored row is returned, its absence leads to the
\* creation of the defaults
LazyRead ==
    /\ session.phase = "lazy"
    /\ last.op = "idle"
    /\ session.pc = "none"
    /\ session' = [session EXCEPT
            !.pc = IF fetchUserStudySettings # NoSettings THEN "returned" ELSE "readNone",
            !.updated = NoUpdate]
    /\ UNCHANGED <<catalog, settings, progress, now, loadedAt, calls, maxSeen, last>>

\* updateSettings from start to end; noted when it runs between the read and the write
LazyUpdateSettings(updates) ==
    /\ session.phase = "lazy"
    /\ last.op = "idle"
    /\ calls < MaxCalls
    /\ CallUpdateSettings(updates)
    /\ session' = [session EXCEPT
            !.updated = IF session.pc = "readNone" THEN updates ELSE @]

\* await upsertUserStudySettings(userId, DEFAULT_SETTINGS)
LazyWrite ==
    /\ session.phase = "lazy"
    /\ last.op = "idle"
    /\ session.pc = "readNone"
    /\ settings' = upsertUserStudySettings(settings, DEFAULT_SETTINGS)
    /\ session' = [session EXCEPT !.pc = "wrote"]
    /\ UNCHANGED <<catalog, progress, now, loadedAt, calls, maxSeen, last>>

\* getSettingsWithDefaults returns
LazyReturn ==
    /\ session.phase = "lazy"
    /\ last.op = "idle"
    /\ session.pc \in {"returned", "wrote"}
    /\ session' = [session EXCEPT !.pc = "none", !.updated = NoUpdate]
    /\ UNCHANGED <<catalog, settings, progress, now, loadedAt, calls, maxSeen, last>>

InitLazy ==
    /\ catalog = SmallCatalog
    /\ settings = NoSettings
    /\ progress = [t \in {} |-> NoProgress]
    /\ now = 0
    /\ loadedAt = 0
    /\ calls = 0
    /\ maxSeen = [t \in {} |-> 0]
    /\ last = [op |-> "idle"]
    /\ session = [phase |-> "lazy", pc |-> "none", updated |-> NoUpdate]

NextLazy ==
    \/ LazyRead
    \/ \E updates \in SettingsUpdates : LazyUpdateSettings(updates)
    \/ LazyWrite
    \/ LazyReturn
    \/ Tick
    \/ Return

SpecLazy == InitLazy /\ [][NextLazy]_vars

\* C25: when getSettingsWithDefaults has read that there are no settings and
\* updateSettings completes before the defaults are written, the stored settings still
\* hold the values given to updateSettings once the defaults have been written
C25_UpdateSurvivesDefaultCreation ==
    (session.pc = "wrote" /\ session.updated # NoUpdate) =>
        \A f \in DOMAIN session.updated : settings[f] = session.updated[f]

-----------------------------------------------------------------------------
(* The 75 problems, with mastered ids from localStorage that may not be catalog titles *)

\* the masteredIds lists found in localStorage: catalog titles and one title that the
\* catalog does not hold
LegacyIds == {<<1>>, <<TOTAL_BLIND_75 + 1>>, <<2, TOTAL_BLIND_75 + 1>>}

\* the problems the user attempts
AttemptedTitles == {1, 2}

InitCount ==
    /\ catalog = Blind75
    /\ settings = NoSettings
    /\ progress = [t \in {} |-> NoProgress]
    /\ now = 0
    /\ loadedAt = 0
    /\ calls = 0
    /\ maxSeen = [t \in {} |-> 0]
    /\ last = [op |-> "idle"]
    /\ session = [phase |-> "count"]

NextCount ==
    \/ \E masteredIds \in LegacyIds : MigrateFromLocalStorage(masteredIds)
    \/ \E title \in AttemptedTitles, score \in FaultScores :
           UpdateProgressAfterAttempt(FindByTitle(catalog, title), score)
    \/ BuildSpacedRepetitionQueue("")
    \/ Tick
    \/ Return

SpecCount == InitCount /\ [][NextCount]_vars

\* C30: after any attempts and migrations, stats.newCount is not negative and is the
\* number of catalog problems without a progress row
C30_NewCountIsUnattemptedCatalog ==
    last.op = "buildQueue" =>
        /\ last.stats.newCount >= 0
        /\ last.stats.newCount =
               Cardinality({i \in 1..Len(catalog) : catalog[i].title \notin DOMAIN progress})

====
